---- MODULE Spec2Model ----
(***************************************************************************)
(* Projectile trajectory and zone-crossing simulation of the dome demos.   *)
(*                                                                         *)
(* Six source files carry the simulation; `variant` names the file:        *)
(*   "alldirections"       newcholaworkingalldirections.py                 *)
(*   "new"                 newcholaworkingalldirectionsnew.py              *)
(*   "newytrenewall"       newcholaworkingalldirectionsnewytrenewall.py    *)
(*   "newqmanytrajectory"  newcholaworkingcodenewqmanytrajectory.py        *)
(*   "fastcsv"             newcholaworkingalldirectionsfastcsv.py          *)
(*   "redalert"            newcholaworkingcodetrajectoryredalert.py        *)
(* (newcholaworkingcode.py has no projectile at all.)                      *)
(*                                                                         *)
(* Numbers.  The code computes in binary floating point.  The model uses   *)
(* fixed point: time in milliseconds (dt = clock.tick(30) / 1000.0 is a    *)
(* whole number of milliseconds), positions and distances in 1/PosScale    *)
(* of a unit, velocities in 1/VelScale of a unit per second.  Every        *)
(* quotient is rounded to the nearest representable value (RoundDiv), as   *)
(* a floating point operation is; a norm is rounded up (CeilSqrt), so that *)
(* comparing it with a whole radius gives the answer of the exact          *)
(* comparison.                                                             *)
(***************************************************************************)
EXTENDS Integers, Sequences, FiniteSets, TLC

VARIABLES
    variant,             \* which source file runs
    projectiles,         \* multi-projectile variants: the global list
    projectile,          \* single-projectile variants: the global object or None
    spawn_timer,         \* ms accumulated by the spawn scheduler
    outer_entry_points,  \* outer_entry_points / outer_hits
    inner_entry_points,  \* inner_entry_points / inner_hits
    impact_markers,      \* fastcsv: (position, radius) pairs
    red_trail,           \* redalert: positions inside the inner dome
    frame,               \* history: number of loop iterations (update calls) so far
    dts,                 \* history: the dt of every iteration so far
    spawn_frames         \* history: iterations in which spawn_projectile() ran

vars == <<variant, projectiles, projectile, spawn_timer, outer_entry_points,
          inner_entry_points, impact_markers, red_trail, frame, dts, spawn_frames>>

-----------------------------------------------------------------------------
(* Units and arithmetic *)

PosScale == 10
VelScale == 100
MsPerSec == 1000

\* a / b rounded to the nearest integer, halves away from zero (b > 0)
RoundDiv(a, b) ==
    IF a >= 0 THEN (2 * a + b) \div (2 * b) ELSE -((2 * (-a) + b) \div (2 * b))

\* least r in lo..hi with r * r >= n
RECURSIVE SqrtSearch(_, _, _)
SqrtSearch(n, lo, hi) ==
    IF lo >= hi THEN lo
    ELSE LET mid == (lo + hi) \div 2
         IN  IF mid * mid >= n THEN SqrtSearch(n, lo, mid)
             ELSE SqrtSearch(n, mid + 1, hi)

SqrtLimit == 46340

CeilSqrt(n) == SqrtSearch(n, 0, SqrtLimit)

Vec(x, y, z) == <<x, y, z>>
Add(a, b) == <<a[1] + b[1], a[2] + b[2], a[3] + b[3]>>
Sub(a, b) == <<a[1] - b[1], a[2] - b[2], a[3] - b[3]>>
Dot(a, b) == a[1] * b[1] + a[2] * b[2] + a[3] * b[3]

\* np.linalg.norm
Norm(a) == CeilSqrt(Dot(a, a))

\* whole units to position units
U(n) == n * PosScale

-----------------------------------------------------------------------------
(* Configuration of the variants *)

inner_dome_radius == 300
outer_dome_radius == 320

InnerR == U(inner_dome_radius)
OuterR == U(outer_dome_radius)

Variants == {"alldirections", "new", "newytrenewall", "newqmanytrajectory",
             "fastcsv", "redalert"}

\* variants whose main loop keeps the list `projectiles`
MultiVariants == {"new", "newytrenewall", "newqmanytrajectory", "fastcsv"}
\* variants whose main loop keeps the single object `projectile`
SingleVariants == {"alldirections", "redalert"}
\* variants whose Projectile records dome entries
MarkerVariants == {"newytrenewall", "newqmanytrajectory", "fastcsv", "redalert"}

\* the point distances are measured from
Center(v) ==
    IF v = "redalert" THEN Vec(0, InnerR \div 2, 0) ELSE Vec(0, 0, 0)

\* the spawn interval of the main loop, in ms
SpawnInterval(v) ==
    CASE v = "alldirections" -> 1500
      [] v = "fastcsv"       -> 200
      [] v = "redalert"      -> 2000
      [] OTHER               -> 500

\* the speed handed to the velocity, in velocity units
Speed(v) ==
    CASE v = "fastcsv"  -> 300 * VelScale
      [] v = "redalert" -> 30 * VelScale
      [] OTHER          -> 100 * VelScale

upward_speed == 40

NoProjectile == [id |-> 0]
NaN == "nan"

-----------------------------------------------------------------------------
(* class Projectile *)

\* the trail a new projectile starts with
InitialTrail(v, pos) == IF v = "redalert" THEN <<>> ELSE <<pos>>

\* mutant: the starting distance is the outer radius, wherever the
\* projectile starts
InitialDistanceAtOuterDome(v, pos) ==
    IF v \in MarkerVariants THEN OuterR ELSE 0

\* mutant: the starting distance is measured from the origin in every variant
InitialDistanceFromOrigin(v, pos) ==
    IF v \in MarkerVariants THEN Norm(pos) ELSE 0

\* prev_distance / prev_dist of a new projectile (0: the class has no such field)
InitialDistance(v, pos) ==
    IF v \in MarkerVariants THEN Norm(Sub(pos, Center(v))) ELSE 0

\* Projectile.__init__; id, pos0, updates and born are history fields:
\* the object's identity, its spawn position, the number of update() calls
\* and the loop iteration that created it
NewProjectile(v, pos, vel, id, born) ==
    [id |-> id, pos |-> pos, vel |-> vel, active |-> TRUE,
     trail |-> InitialTrail(v, pos),
     prev_distance |-> InitialDistance(v, pos),
     marker_created |-> FALSE,
     pos0 |-> pos, updates |-> 0, born |-> born]

\* 9.8 * dt, in velocity units
Gravity(dt) == RoundDiv(98 * VelScale * dt, 10 * MsPerSec)

\* the velocity the position step of update() uses
SteppedVelocity(v, vel, dt) ==
    IF v = "redalert" THEN Vec(vel[1], vel[2] - Gravity(dt), vel[3]) ELSE vel

\* vel * dt, in position units
Displacement(vel, dt) ==
    Vec(RoundDiv(vel[1] * dt * PosScale, VelScale * MsPerSec),
        RoundDiv(vel[2] * dt * PosScale, VelScale * MsPerSec),
        RoundDiv(vel[3] * dt * PosScale, VelScale * MsPerSec))

\* mutant: the position step runs before the gravity step, on the velocity
\* update() was entered with
MovedByOldVelocity(pos, before, after, dt) == Add(pos, Displacement(before, dt))

\* self.pos += self.vel * dt, which the gravity variant runs after
\* self.vel[1] -= 9.8 * dt: before and after are the velocity on entry and
\* the velocity after the gravity step
Moved(pos, before, after, dt) == Add(pos, Displacement(after, dt))

\* mutant: a previous distance equal to the radius counts as outside
CrossedIntoLoose(prev, cur, radius) == prev >= radius /\ cur <= radius

\* mutant: a current distance equal to the radius counts as outside
CrossedIntoStrictly(prev, cur, radius) == prev > radius /\ cur < radius

\* the crossing test of update()
CrossedInto(prev, cur, radius) == prev > radius /\ cur <= radius

\* math.sqrt(pos[0]**2 + pos[2]**2)
HorizontalDistance(pos) == CeilSqrt(pos[1] * pos[1] + pos[3] * pos[3])

\* mutant: the impact test does not look at the horizontal distance
ImpactDueAnywhere(v, p, pos) ==
    /\ v = "fastcsv"
    /\ ~p.marker_created
    /\ pos[2] <= 0

\* the impact test of update() (fastcsv only)
ImpactDue(v, p, pos) ==
    /\ v = "fastcsv"
    /\ ~p.marker_created
    /\ pos[2] <= 0
    /\ HorizontalDistance(pos) <= InnerR

\* mutant: y = 0 does not count as ground
DeactivatesBelowOnly(v, pos) ==
    IF v = "redalert" THEN pos[2] < 0 \/ pos[2] > InnerR * 2
    ELSE pos[2] < 0

\* mutant: the gravity variant has no upper bound
DeactivatesNoCeiling(v, pos) ==
    IF v = "redalert" THEN pos[2] < 0 ELSE pos[2] <= 0

\* the deactivation test of update()
Deactivates(v, pos) ==
    IF v = "redalert" THEN pos[2] < 0 \/ pos[2] > InnerR * 2
    ELSE pos[2] <= 0

\* mutant: the guard is never set
MarkerCreatedForgotten(created, hit) == created

\* marker_created after the impact test
MarkerCreatedAfter(created, hit) == IF hit THEN TRUE ELSE created

Marker(pos, id) == [pos |-> pos, by |-> id]
ImpactMarker(pos, r, id) == [pos |-> pos, r |-> r, by |-> id]

\* mutant: the trail holds the position array itself, so that every entry
\* shows the position as it is now
TrailAppendAliased(trail, pos) == [i \in 1..(Len(trail) + 1) |-> pos]

\* self.trail.append(tuple(self.pos)): the entry is a copy of the position
TrailAppend(trail, pos) == Append(trail, pos)

\* mutant: the list is rebound to the new markers
ExtendedAfresh(list, items) == IF items = <<>> THEN list ELSE items

\* a global list after the append() calls of one update()
Extended(list, items) == list \o items

\* Projectile.update(dt); r is the outcome of random.uniform(0.3, 1.0).
\* The result holds the updated object and what the call appends to the
\* global lists.
update(v, p, dt, r) ==
    LET vel1 == SteppedVelocity(v, p.vel, dt)
        pos1 == Moved(p.pos, p.vel, vel1, dt)
        cur  == IF v \in MarkerVariants THEN Norm(Sub(pos1, Center(v))) ELSE 0
        hit  == ImpactDue(v, p, pos1)
    IN  [proj |-> [p EXCEPT !.vel = vel1,
                            !.pos = pos1,
                            !.trail = TrailAppend(@, pos1),
                            !.prev_distance = cur,
                            !.marker_created = MarkerCreatedAfter(@, hit),
                            !.active = IF Deactivates(v, pos1) THEN FALSE ELSE @,
                            !.updates = @ + 1],
         outer  |-> IF v \in MarkerVariants /\ CrossedInto(p.prev_distance, cur, OuterR)
                    THEN <<Marker(pos1, p.id)>> ELSE <<>>,
         inner  |-> IF v \in MarkerVariants /\ CrossedInto(p.prev_distance, cur, InnerR)
                    THEN <<Marker(pos1, p.id)>> ELSE <<>>,
         impact |-> IF hit THEN <<ImpactMarker(pos1, r, p.id)>> ELSE <<>>,
         red    |-> IF v = "redalert" /\ cur <= InnerR THEN <<pos1>> ELSE <<>>]

\* glColor3f triples
Green  == <<0, 1, 0>>
Yellow == <<1, 1, 0>>
Red    == <<1, 0, 0>>

\* the variants that define get_zone_color
ZoneVariants == {"new", "newytrenewall", "newqmanytrajectory", "fastcsv"}

\* mutant: a distance equal to a radius is on the far side of it
get_zone_color_at_or_beyond(v, pos) ==
    LET d == Norm(pos)
    IN  IF d >= OuterR THEN Green
        ELSE IF v = "newytrenewall" THEN Yellow
        ELSE IF d >= InnerR THEN Yellow
        ELSE Red

\* get_zone_color(pos): newytrenewall has no red zone
get_zone_color(v, pos) ==
    LET d == Norm(pos)
    IN  IF d > OuterR THEN Green
        ELSE IF v = "newytrenewall" THEN Yellow
        ELSE IF d > InnerR THEN Yellow
        ELSE Red

\* outcomes of random.uniform(0.3, 1.0), in tenths
RadiusDraws == {3, 10}

-----------------------------------------------------------------------------
(* The frame clock *)

\* values of dt = clock.tick(30) / 1000.0, in ms: those fed to a lone
\* projectile, those fed to the main loops of the multi-projectile variants
\* and those fed to the main loops of the single-projectile variants
TickDts == {100, 200, 1000, 2000}
FrameDts == {100, 200, 3000}
SingleFrameDts == {100, 200, 1000, 3000}

\* dt values whose constant runs are followed further
SteadyDts == {100, 200}

MaxTicks == 4
MaxSteadyTicks == 34

\* exploration bound: every dt sequence up to `short` iterations, constant
\* sequences up to `long`
ClockAllows(dt, short, long) ==
    \/ frame < short
    \/ /\ frame < long
       /\ dt \in SteadyDts
       /\ \A i \in 1..Len(dts) : dts[i] = dt

-----------------------------------------------------------------------------
(* spawn_projectile() *)

\* cosines and sines are kept as numerators over TrigDen
TrigDen == 5

\* (cos, sin) of outcomes of random.uniform(0, 2 * math.pi)
Angles ==
    { <<5, 0>>, <<4, 3>>, <<3, 4>>, <<0, 5>>, <<-3, 4>>, <<-4, 3>>,
      <<-5, 0>>, <<-4, -3>>, <<-3, -4>>, <<0, -5>>, <<3, -4>>, <<4, -3>> }

\* (sin, cos) of outcomes of random.uniform(0, math.pi)
PolarAngles ==
    { <<0, 5>>, <<3, 4>>, <<4, 3>>, <<5, 0>>, <<4, -3>>, <<3, -4>>, <<0, -5>> }

\* one outcome of the random draws of a spawn_projectile() call:
\* ang the angle / azimuth, pol the polar angle, r the disc radius r_spawn,
\* y the height random.uniform(350, 400); a variant reads the fields it draws
Draw(ang, pol, r, y) == [ang |-> ang, pol |-> pol, r |-> r, y |-> y]

\* the margin added to outer_dome_radius
SpawnMargin(v) ==
    CASE v = "alldirections" -> 10
      [] v = "redalert"      -> 2
      [] OTHER               -> 20

\* mutant: the distance from the axis or the center is the drawn radius
\* r_spawn in every variant, as it is in alldirections
SpawnPosAtDrawnRadius(v, d) ==
    CASE v \in {"alldirections", "new", "newytrenewall"} ->
           Vec(RoundDiv(U(d.r) * d.ang[1], TrigDen),
               IF v = "alldirections"
               THEN U(outer_dome_radius + SpawnMargin(v)) ELSE U(d.y),
               RoundDiv(U(d.r) * d.ang[2], TrigDen))
      [] v \in {"newqmanytrajectory", "fastcsv"} ->
           Vec(RoundDiv(U(d.r) * d.pol[1] * d.ang[1], TrigDen * TrigDen),
               RoundDiv(U(d.r) * d.pol[2], TrigDen),
               RoundDiv(U(d.r) * d.pol[1] * d.ang[2], TrigDen * TrigDen))
      [] v = "redalert" ->
           Vec(RoundDiv(U(d.r) * d.ang[1], TrigDen), 0,
               RoundDiv(U(d.r) * d.ang[2], TrigDen))

\* the position spawn_projectile() computes from its draws
SpawnPos(v, d) ==
    LET R == U(outer_dome_radius + SpawnMargin(v))
    IN  CASE v = "alldirections" ->
               Vec(RoundDiv(U(d.r) * d.ang[1], TrigDen), R,
                   RoundDiv(U(d.r) * d.ang[2], TrigDen))
          [] v \in {"new", "newytrenewall"} ->
               Vec(RoundDiv(R * d.ang[1], TrigDen), U(d.y),
                   RoundDiv(R * d.ang[2], TrigDen))
          [] v \in {"newqmanytrajectory", "fastcsv"} ->
               Vec(RoundDiv(R * d.pol[1] * d.ang[1], TrigDen * TrigDen),
                   RoundDiv(R * d.pol[2], TrigDen),
                   RoundDiv(R * d.pol[1] * d.ang[2], TrigDen * TrigDen))
          [] v = "redalert" ->
               Vec(RoundDiv(R * d.ang[1], TrigDen), 0,
                   RoundDiv(R * d.ang[2], TrigDen))

\* mutant: the aim is the top of the inner dome
AimTargetAtDomeTop(v) == Vec(0, InnerR, 0)

\* the point an aimed velocity points at
AimTarget(v) == Center(v)

\* direction / norm * speed for the aimed variants; numpy divides 0.0 by 0.0
\* to nan (a warning, no exception); redalert replaces a zero norm by 1
AimedVelocity(v, pos) ==
    LET direction == Sub(AimTarget(v), pos)
        norm      == Norm(direction)
        norm1     == IF v = "redalert" /\ norm = 0 THEN 1 ELSE norm
    IN  IF norm1 = 0 THEN Vec(NaN, NaN, NaN)
        ELSE Vec(RoundDiv(direction[1] * Speed(v), norm1),
                 RoundDiv(direction[2] * Speed(v), norm1),
                 RoundDiv(direction[3] * Speed(v), norm1))

\* mutant: every variant drops its projectiles straight down, as
\* alldirections does
SpawnVelocityStraightDown(v, pos) == Vec(0, -Speed(v), 0)

\* the velocity spawn_projectile() gives a projectile at pos
SpawnVelocity(v, pos) ==
    CASE v = "alldirections" -> Vec(0, -Speed(v), 0)
      [] v = "redalert" ->
             [AimedVelocity(v, pos) EXCEPT ![2] = upward_speed * VelScale]
      [] OTHER -> AimedVelocity(v, pos)

\* spawn_projectile() from the computed position on
SpawnAt(v, pos, id, born) == NewProjectile(v, pos, SpawnVelocity(v, pos), id, born)

spawn_projectile(v, d, id, born) == SpawnAt(v, SpawnPos(v, d), id, born)

\* the draws followed in the main loops
SpawnDraws(v) ==
    CASE v = "alldirections" ->
             { Draw(<<5, 0>>, <<0, 5>>, 0, 0), Draw(<<3, 4>>, <<0, 5>>, 200, 0),
               Draw(<<-5, 0>>, <<0, 5>>, 320, 0) }
      [] v \in {"new", "newytrenewall"} ->
             { Draw(<<5, 0>>, <<0, 5>>, 0, 350), Draw(<<-3, 4>>, <<0, 5>>, 0, 400) }
      [] v \in {"newqmanytrajectory", "fastcsv"} ->
             { Draw(<<5, 0>>, <<3, 4>>, 0, 0), Draw(<<0, 5>>, <<5, 0>>, 0, 0),
               Draw(<<-4, 3>>, <<4, -3>>, 0, 0) }
      [] v = "redalert" ->
             { Draw(<<5, 0>>, <<0, 5>>, 0, 0), Draw(<<3, 4>>, <<0, 5>>, 0, 0),
               Draw(<<0, -5>>, <<0, 5>>, 0, 0) }

-----------------------------------------------------------------------------
(* SpecProj: one Projectile object, constructed from (pos, vel) and driven   *)
(* by update() calls; update() is called whatever the active flag says, as  *)
(* the class allows.                                                        *)

\* constructor arguments, in whole units and units per second
ProjArgs ==
    { <<Vec(0, 330, 0),    Vec(0, -100, 0)>>,
      <<Vec(0, 400, 0),    Vec(0, -100, 0)>>,
      <<Vec(0, 300, 0),    Vec(0, -100, 0)>>,
      <<Vec(0, 310, 0),    Vec(0, -300, 0)>>,
      <<Vec(0, 460, 0),    Vec(0, 40, 0)>>,
      <<Vec(400, 10, 0),   Vec(0, -100, 0)>>,
      <<Vec(400, -10, 0),  Vec(-100, 0, 0)>>,
      <<Vec(100, 200, 0),  Vec(-100, 0, 0)>>,
      <<Vec(240, 320, 0),  Vec(-60, -80, 0)>>,
      <<Vec(0, 100, 340),  Vec(0, -40, -300)>>,
      <<Vec(322, 0, 0),    Vec(-27, 40, 0)>>,
      <<Vec(0, 590, 0),    Vec(0, 40, 0)>> }

\* constructor arguments in tenths of a unit and hundredths of a unit per
\* second: Projectile((322, 0, 0), (-27, 9.8, 0)), which one second of
\* gravity brings to rest at y = 0, and Projectile((0, 569.8, 0), (0, 40, 0)),
\* which one second brings to y = 600
ProjArgsFine ==
    { <<Vec(3220, 0, 0), Vec(-2700, 980, 0)>>,
      <<Vec(0, 5698, 0), Vec(0, 4000, 0)>> }

\* alldirections: Projectile(pos, speed) builds the velocity (0, -speed, 0)
ProjInputs(v) ==
    IF v = "alldirections"
    THEN {a \in ProjArgs : a[2][1] = 0 /\ a[2][3] = 0}
    ELSE ProjArgs

Scaled(a, k) == Vec(a[1] * k, a[2] * k, a[3] * k)

\* the constructor arguments spawn_projectile() builds from the draws
\* followed in the main loops
SpawnedStarts(v) ==
    { <<SpawnPos(v, d), SpawnVelocity(v, SpawnPos(v, d))>> : d \in SpawnDraws(v) }

\* the constructor arguments in the units of the model
ProjStarts(v) ==
    { <<Scaled(a[1], PosScale), Scaled(a[2], VelScale)>> : a \in ProjInputs(v) }
    \cup (IF v = "alldirections" THEN {} ELSE ProjArgsFine)
    \cup SpawnedStarts(v)

InitProj ==
    /\ variant \in Variants
    /\ \E a \in ProjStarts(variant) :
          projectile = NewProjectile(variant, a[1], a[2], 1, 0)
    /\ projectiles = <<>>
    /\ spawn_timer = 0
    /\ outer_entry_points = <<>>
    /\ inner_entry_points = <<>>
    /\ impact_markers = <<>>
    /\ red_trail = <<>>
    /\ frame = 0
    /\ dts = <<>>
    /\ spawn_frames = <<>>

\* one call projectile.update(dt)
Tick(dt, r) ==
    /\ ClockAllows(dt, MaxTicks, MaxSteadyTicks)
    /\ LET u == update(variant, projectile, dt, r)
       IN  /\ projectile' = u.proj
           /\ outer_entry_points' = Extended(outer_entry_points, u.outer)
           /\ inner_entry_points' = Extended(inner_entry_points, u.inner)
           /\ impact_markers' = Extended(impact_markers, u.impact)
           /\ red_trail' = Extended(red_trail, u.red)
    /\ frame' = frame + 1
    /\ dts' = Append(dts, dt)
    /\ UNCHANGED <<variant, projectiles, spawn_timer, spawn_frames>>

NextProj == \E dt \in TickDts, r \in RadiusDraws : Tick(dt, r)

SpecProj == InitProj /\ [][NextProj]_vars

-----------------------------------------------------------------------------
(* SpecSpawn: one call of spawn_projectile() of an aimed variant, for every *)
(* outcome of its draws on the grid of angles                              *)

\* the variants whose spawn_projectile() aims the velocity at a point
AimedVariants == {"new", "newytrenewall", "newqmanytrajectory", "fastcsv", "redalert"}

\* outcomes of random.uniform(350, 400)
SpawnHeights == {350, 375, 400}

\* the outcomes of the draws of one spawn_projectile() call
AllDraws(v) ==
    CASE v \in {"new", "newytrenewall"} ->
             { Draw(a, <<0, 5>>, 0, y) : a \in Angles, y \in SpawnHeights }
      [] v \in {"newqmanytrajectory", "fastcsv"} ->
             { Draw(a, pol, 0, 0) : a \in Angles, pol \in PolarAngles }
      [] OTHER ->
             { Draw(a, <<0, 5>>, 0, 0) : a \in Angles }

InitSpawn ==
    /\ variant \in AimedVariants
    /\ projectile = NoProjectile
    /\ projectiles = <<>>
    /\ spawn_timer = 0
    /\ outer_entry_points = <<>>
    /\ inner_entry_points = <<>>
    /\ impact_markers = <<>>
    /\ red_trail = <<>>
    /\ frame = 0
    /\ dts = <<>>
    /\ spawn_frames = <<>>

\* one call spawn_projectile()
SpawnCall(d) ==
    /\ projectile = NoProjectile
    /\ projectile' = spawn_projectile(variant, d, 1, 0)
    /\ spawn_frames' = <<0>>
    /\ UNCHANGED <<variant, projectiles, spawn_timer, outer_entry_points,
                   inner_entry_points, impact_markers, red_trail, frame, dts>>

NextSpawn == \E d \in AllDraws(variant) : SpawnCall(d)

SpecSpawn == InitSpawn /\ [][NextSpawn]_vars

-----------------------------------------------------------------------------
(* main(): one action per iteration of the loop *)

MaxFrames == 4
MaxSteadyFrames == 9

\* mutant: the test of the loop is inverted
IsUpdatedInverted(p) == ~p.active

\* mutant: the loop updates every projectile of the list
IsUpdatedAlways(p) == TRUE

\* `if proj.active` of the multi-projectile loop
IsUpdated(p) == p.active

\* the if branch: the updated object stays in the list, its markers are appended
Updated(acc, u) ==
    [projs  |-> Append(acc.projs, u.proj),
     outer  |-> acc.outer \o u.outer,
     inner  |-> acc.inner \o u.inner,
     impact |-> acc.impact \o u.impact]

\* mutant: the inactive projectile stays in the list
RemovedNot(acc, p) == [acc EXCEPT !.projs = Append(@, p)]

\* the else branch: projectiles.remove(proj)
Removed(acc, p) == acc

\* the for loop over projectiles[:] from index i on: an active projectile is
\* updated, an inactive one is removed; acc gathers the list that remains and
\* what the updates append
RECURSIVE PassFrom(_, _, _, _, _, _)
PassFrom(v, list, i, dt, rs, acc) ==
    IF i > Len(list) THEN acc
    ELSE LET p == list[i]
         IN  IF IsUpdated(p)
             THEN PassFrom(v, list, i + 1, dt, rs,
                           Updated(acc, update(v, p, dt,
                                       IF p.id \in DOMAIN rs THEN rs[p.id] ELSE 0)))
             ELSE PassFrom(v, list, i + 1, dt, rs, Removed(acc, p))

Pass(v, list, dt, rs) ==
    PassFrom(v, list, 1, dt, rs,
             [projs |-> <<>>, outer |-> <<>>, inner |-> <<>>, impact |-> <<>>])

\* the projectiles whose update draws an impact radius in this iteration
ImpactIds(v, list, dt) ==
    { list[i].id : i \in { j \in DOMAIN list :
                             list[j].active /\ update(v, list[j], dt, 0).impact # <<>> } }

\* mutant: the timer is tested before the dt of the frame is added
TimerFiresBeforeAdding(v, timer, dt) == timer > SpawnInterval(v)

\* mutant: a timer equal to the interval spawns too
TimerFiresAtInterval(v, timer, dt) == timer + dt >= SpawnInterval(v)

\* spawn_timer += dt; if spawn_timer > interval
TimerFires(v, timer, dt) == timer + dt > SpawnInterval(v)

\* mutant: a spawn takes the interval off the timer and keeps the rest
TimerAfterKeepingRest(v, timer, dt) ==
    IF TimerFires(v, timer, dt) THEN timer + dt - SpawnInterval(v) ELSE timer + dt

\* mutant: a spawn leaves the timer running
TimerAfterWithoutReset(v, timer, dt) == timer + dt

\* the timer after the spawn decision
TimerAfter(v, timer, dt) == IF TimerFires(v, timer, dt) THEN 0 ELSE timer + dt

NextId == Len(spawn_frames) + 1

\* mutant: the loop never takes the update branch
SingleUpdatesNever(p) == FALSE

\* mutant: the loop updates the projectile whatever its active flag
SingleUpdatesAlways(p) == p # NoProjectile

\* `if projectile is not None and projectile.active` of the single-projectile loop
SingleUpdates(p) == p # NoProjectile /\ p.active

\* mutant: the spawn runs before the pass, so that the new projectile is
\* advanced in the frame of its spawn
InsertedAndAdvanced(v, list, p, dt) == Append(list, update(v, p, dt, 0).proj)

\* projectiles.append(spawn_projectile()) after the pass over the list
Inserted(v, list, p, dt) == Append(list, p)

\* mutant: the old object is switched on again instead of being replaced
ReplacementReusingOld(v, old, d, id, born) ==
    IF old = NoProjectile THEN spawn_projectile(v, d, id, born)
    ELSE [old EXCEPT !.active = TRUE]

\* projectile = spawn_projectile(): a new object takes the place of the old
Replacement(v, old, d, id, born) == spawn_projectile(v, d, id, born)

Init ==
    /\ variant \in Variants
    /\ projectiles = <<>>
    /\ IF variant \in SingleVariants
       THEN /\ \E d \in SpawnDraws(variant) :
                  projectile = spawn_projectile(variant, d, 1, 0)
            /\ spawn_frames = <<0>>
       ELSE /\ projectile = NoProjectile
            /\ spawn_frames = <<>>
    /\ spawn_timer = 0
    /\ outer_entry_points = <<>>
    /\ inner_entry_points = <<>>
    /\ impact_markers = <<>>
    /\ red_trail = <<>>
    /\ frame = 0
    /\ dts = <<>>

\* one iteration of the loop of the multi-projectile variants
FrameMulti(dt, d, rs) ==
    /\ variant \in MultiVariants
    /\ ClockAllows(dt, MaxFrames, MaxSteadyFrames)
    /\ LET pass == Pass(variant, projectiles, dt, rs)
           fire == TimerFires(variant, spawn_timer, dt)
       IN  /\ projectiles' =
                 IF fire
                 THEN Inserted(variant, pass.projs,
                               spawn_projectile(variant, d, NextId, frame + 1), dt)
                 ELSE pass.projs
           /\ outer_entry_points' = Extended(outer_entry_points, pass.outer)
           /\ inner_entry_points' = Extended(inner_entry_points, pass.inner)
           /\ impact_markers' = Extended(impact_markers, pass.impact)
           /\ spawn_frames' = IF fire THEN Append(spawn_frames, frame + 1) ELSE spawn_frames
    /\ spawn_timer' = TimerAfter(variant, spawn_timer, dt)
    /\ frame' = frame + 1
    /\ dts' = Append(dts, dt)
    /\ UNCHANGED <<variant, projectile, red_trail>>

\* one iteration of the loop of the single-projectile variants
FrameSingle(dt, d) ==
    /\ variant \in SingleVariants
    /\ ClockAllows(dt, MaxFrames, MaxSteadyFrames)
    /\ IF SingleUpdates(projectile)
       THEN LET u == update(variant, projectile, dt, 0)
            IN  /\ projectile' = u.proj
                /\ outer_entry_points' = Extended(outer_entry_points, u.outer)
                /\ inner_entry_points' = Extended(inner_entry_points, u.inner)
                /\ red_trail' = Extended(red_trail, u.red)
                /\ UNCHANGED <<spawn_timer, spawn_frames>>
       ELSE LET fire == TimerFires(variant, spawn_timer, dt)
            IN  /\ projectile' =
                      IF fire
                      THEN Replacement(variant, projectile, d, NextId, frame + 1)
                      ELSE projectile
                /\ spawn_frames' =
                      IF fire THEN Append(spawn_frames, frame + 1) ELSE spawn_frames
                /\ spawn_timer' = TimerAfter(variant, spawn_timer, dt)
                /\ UNCHANGED <<outer_entry_points, inner_entry_points, red_trail>>
    /\ frame' = frame + 1
    /\ dts' = Append(dts, dt)
    /\ UNCHANGED <<variant, projectiles, impact_markers>>

\* a frame of a multi-projectile variant, with its dt and its random draws
StepMulti ==
    \E dt \in FrameDts :
       /\ variant \in MultiVariants
       /\ ClockAllows(dt, MaxFrames, MaxSteadyFrames)
       /\ \E d \in SpawnDraws(variant) :
             \E rs \in [ImpactIds(variant, projectiles, dt) -> RadiusDraws] :
                FrameMulti(dt, d, rs)

\* a frame of a single-projectile variant, with its dt and its random draws
StepSingle ==
    \E dt \in SingleFrameDts :
       /\ variant \in SingleVariants
       /\ \E d \in SpawnDraws(variant) : FrameSingle(dt, d)

Next == StepMulti \/ StepSingle

Spec == Init /\ [][Next]_vars

-----------------------------------------------------------------------------
(* SpecAim: the aiming code of spawn_projectile() applied to a position,    *)
(* the target itself included.                                              *)

AimOffsets == {-1, 0, 1}

AimInputs(v) ==
    { Add(AimTarget(v), Vec(U(i), U(j), U(k))) : i, j, k \in AimOffsets }
    \cup { SpawnPos(v, d) : d \in SpawnDraws(v) }

InitAim ==
    /\ variant \in Variants \ {"alldirections"}
    /\ projectile = NoProjectile
    /\ projectiles = <<>>
    /\ spawn_timer = 0
    /\ outer_entry_points = <<>>
    /\ inner_entry_points = <<>>
    /\ impact_markers = <<>>
    /\ red_trail = <<>>
    /\ frame = 0
    /\ dts = <<>>
    /\ spawn_frames = <<>>

AimAt(pos) ==
    /\ projectile = NoProjectile
    /\ projectile' = SpawnAt(variant, pos, 1, 0)
    /\ UNCHANGED <<variant, projectiles, spawn_timer, outer_entry_points,
                   inner_entry_points, impact_markers, red_trail, frame, dts,
                   spawn_frames>>

NextAim == \E pos \in AimInputs(variant) : AimAt(pos)

SpecAim == InitAim /\ [][NextAim]_vars

-----------------------------------------------------------------------------
(* Vocabulary of the properties *)

\* the Projectile objects the program holds
LiveOf(list, single) ==
    { list[i] : i \in DOMAIN list }
    \cup (IF single = NoProjectile THEN {} ELSE {single})

Live == LiveOf(projectiles, projectile)

IdsOf(list) == { list[i].id : i \in DOMAIN list }

\* the owners of the markers a step appends to a list
AppendedBy(old, new) == { new[i].by : i \in (Len(old) + 1)..Len(new) }

\* distance from the variant's center, as update() measures it
Dist(pos) == Norm(Sub(pos, Center(variant)))

\* the positions of p at its construction and after each update
History(p) == IF variant = "redalert" THEN <<p.pos0>> \o p.trail ELSE p.trail

\* the distance fell at every tick
Inward(h) == \A i \in 1..(Len(h) - 1) : Dist(h[i + 1]) < Dist(h[i])

\* some entry of h is at or below radius
Reaches(h, radius) == \E i \in DOMAIN h : Dist(h[i]) <= radius

\* index of the first entry of h at or below radius
FirstWithin(h, radius) ==
    CHOOSE i \in DOMAIN h :
        /\ Dist(h[i]) <= radius
        /\ \A j \in 1..(i - 1) : Dist(h[j]) > radius

\* the distance was above radius at some tick and at or below it at a later one
CameBack(h, radius) ==
    \E i, j \in DOMAIN h : i < j /\ Dist(h[i]) > radius /\ Dist(h[j]) <= radius

AllDtsAre(dt) == \A i \in DOMAIN dts : dts[i] = dt

-----------------------------------------------------------------------------
(* C1 *)

\* C1 (as claimed): in every variant every projectile the loop holds has a
\* trail of (number of update() calls) + 1 entries whose first entry is the
\* spawn position.  redalert starts the trail empty.
C1_TrailCountsUpdatesEverywhere ==
    \A p \in Live :
        /\ Len(p.trail) = p.updates + 1
        /\ p.trail[1] = p.pos0

-----------------------------------------------------------------------------
(* C2 *)

\* C2: a projectile that starts above outer_dome_radius and whose distance
\* fell at every tick has exactly one outer-entry marker once its distance is
\* at or below the radius, none before, and the marker is the position of the
\* first tick at or below the radius.
C2_SingleOuterCrossing ==
    LET h == History(projectile)
    IN  (variant \in MarkerVariants /\ Dist(h[1]) > OuterR /\ Inward(h)) =>
            IF Reaches(h, OuterR)
            THEN outer_entry_points =
                     <<Marker(h[FirstWithin(h, OuterR)], projectile.id)>>
            ELSE outer_entry_points = <<>>

\* a fall from distance 400 to distance 100, two ticks past the crossing
C2_Witness ==
    LET h == History(projectile)
    IN  /\ variant \in MarkerVariants
        /\ Dist(h[1]) = U(400)
        /\ Inward(h)
        /\ Dist(h[Len(h)]) <= U(100)
        /\ Len(h) >= FirstWithin(h, OuterR) + 2
        /\ Len(outer_entry_points) = 1

-----------------------------------------------------------------------------
(* C3 *)

\* C3: a projectile constructed at distance <= outer_dome_radius has no
\* outer-entry marker unless its distance was above the radius at some tick
\* and at or below it at a later one; after its first tick it has none.
C3_NoCrossingWhenSpawnedInside ==
    LET h == History(projectile)
    IN  (variant \in MarkerVariants /\ Dist(projectile.pos0) <= OuterR) =>
            /\ ~CameBack(h, OuterR) => outer_entry_points = <<>>
            /\ projectile.updates = 1 => outer_entry_points = <<>>

\* spawned inside, updated at least twice, still inside at the first tick
C3_Witness ==
    LET h == History(projectile)
    IN  /\ variant \in MarkerVariants
        /\ Dist(projectile.pos0) <= OuterR
        /\ projectile.updates >= 2
        /\ Dist(h[2]) <= OuterR
        /\ ~CameBack(h, OuterR)
        /\ outer_entry_points = <<>>

-----------------------------------------------------------------------------
(* C5 *)

\* the ticks of p at which the impact condition of update() held
ImpactTicks(p) ==
    { i \in DOMAIN p.trail :
         i > 1 /\ p.trail[i][2] <= 0 /\ HorizontalDistance(p.trail[i]) <= InnerR }

\* C5: whatever the dt values and however many ticks it spends at or below
\* y = 0, a projectile owns at most one entry of impact_markers.
C5_AtMostOneImpactMarker ==
    Cardinality({ i \in DOMAIN impact_markers :
                     impact_markers[i].by = projectile.id }) <= 1

\* the impact condition held at two ticks or more, one marker exists
C5_Witness ==
    /\ variant = "fastcsv"
    /\ Cardinality(ImpactTicks(projectile)) >= 2
    /\ Len(impact_markers) = 1

-----------------------------------------------------------------------------
(* C7 *)

\* the straight-fall scenario: (0, 330, 0), (0, -100, 0), dt = 0.1 s throughout
StraightFall ==
    /\ variant # "redalert"
    /\ projectile.pos0 = Vec(0, U(330), 0)
    /\ projectile.vel = Vec(0, -100 * VelScale, 0)
    /\ AllDtsAre(MsPerSec \div 10)

\* C7: in the scenario y = 320 after tick 1 and that tick records the outer
\* entry; the projectile is active exactly while y > 0, so it becomes inactive
\* at the first tick with y <= 0, and the trail has one entry more than there
\* were ticks.
C7_StraightFallScenario ==
    StraightFall =>
        /\ frame >= 1 =>
              /\ projectile.trail[2] = Vec(0, U(320), 0)
              /\ variant \in MarkerVariants =>
                    /\ Len(outer_entry_points) >= 1
                    /\ outer_entry_points[1] = Marker(projectile.trail[2], projectile.id)
        /\ projectile.active <=> (\A i \in DOMAIN projectile.trail :
                                     projectile.trail[i][2] > 0)
        /\ Len(projectile.trail) = frame + 1

\* the scenario at its first tick with y <= 0
C7_Witness ==
    /\ StraightFall
    /\ variant = "fastcsv"
    /\ frame > 1
    /\ projectile.pos[2] <= 0
    /\ projectile.trail[frame][2] > 0
    /\ ~projectile.active
    /\ Len(outer_entry_points) = 1

-----------------------------------------------------------------------------
(* C4 *)

\* C4: a frame leaves every inactive projectile it still holds as it was
\* (position and trail included) and appends no marker owned by it.
C4_InactiveIsFrozen ==
    [][\A p \in Live :
          ~p.active =>
              /\ \A q \in LiveOf(projectiles', projectile') : q.id = p.id => q = p
              /\ p.id \notin AppendedBy(outer_entry_points, outer_entry_points')
              /\ p.id \notin AppendedBy(inner_entry_points, inner_entry_points')
              /\ p.id \notin AppendedBy(impact_markers, impact_markers')]_vars

\* an inactive projectile is still held one frame or more after its last update
C4_Witness ==
    \E p \in Live :
        /\ ~p.active
        /\ p.updates >= 1
        /\ frame > p.born + p.updates

-----------------------------------------------------------------------------
(* C6 *)

\* C6: with the 0.5 s interval and dt = 0.2 s in every frame the multi-
\* projectile loop has spawned exactly in frames 3, 6, 9, ...; whatever the
\* dt values, no frame of a multi-projectile loop spawns twice.
C6_CadenceEveryThirdFrame ==
    variant \in MultiVariants =>
        /\ (SpawnInterval(variant) = MsPerSec \div 2 /\ AllDtsAre(MsPerSec \div 5)) =>
              spawn_frames = [i \in 1..(frame \div 3) |-> 3 * i]
        /\ \A i, j \in DOMAIN spawn_frames : i < j => spawn_frames[i] < spawn_frames[j]
        /\ Len(projectiles) <= Len(spawn_frames)

\* nine frames of 0.2 s: spawns in frames 3, 6 and 9
C6_Witness ==
    /\ variant \in MultiVariants
    /\ SpawnInterval(variant) = MsPerSec \div 2
    /\ AllDtsAre(MsPerSec \div 5)
    /\ spawn_frames = <<3, 6, 9>>
    /\ spawn_timer = 0

-----------------------------------------------------------------------------
(* C8 *)

\* C8 (as claimed): at the end of every frame the list of a multi-projectile
\* variant holds no inactive projectile.
C8_NoInactiveMember ==
    variant \in MultiVariants =>
        \A i \in DOMAIN projectiles : projectiles[i].active

\* C8 (amended): at the end of every frame the list holds no projectile that
\* was inactive when the frame's pass began: every inactive member received
\* its last update, the one that deactivated it, in this very frame.
C8_InactiveMemberIsFresh ==
    variant \in MultiVariants =>
        \A i \in DOMAIN projectiles :
            ~projectiles[i].active =>
                /\ projectiles[i].updates >= 1
                /\ projectiles[i].born + projectiles[i].updates = frame

\* a projectile deactivated by this frame's pass is still in the list
C8_Witness ==
    /\ variant \in MultiVariants
    /\ \E i \in DOMAIN projectiles :
          /\ ~projectiles[i].active
          /\ projectiles[i].born + projectiles[i].updates = frame
          /\ projectiles[i].updates >= 2

-----------------------------------------------------------------------------
(* C9 *)

\* C9: a projectile that is inactive at the end of a frame of a multi-
\* projectile variant is not in the list at the end of the next frame.
C9_RemovedByNextFrame ==
    [][(variant \in MultiVariants) =>
          \A i \in DOMAIN projectiles :
              ~projectiles[i].active => projectiles[i].id \notin IdsOf(projectiles')]_vars

\* a projectile has been spawned, deactivated and removed; another is inactive
C9_Witness ==
    /\ variant \in MultiVariants
    /\ \E k \in 1..Len(spawn_frames) : k \notin IdsOf(projectiles)
    /\ \E i \in DOMAIN projectiles : ~projectiles[i].active

-----------------------------------------------------------------------------
(* C10 *)

-----------------------------------------------------------------------------
(* C11 *)

\* the projectiles inserted by the frame that has just ended
SpawnedThisFrame == { p \in Live : p.born = frame /\ frame >= 1 }

\* C11, as claimed: the spawn precedes the advance step of its frame, so a
\* projectile inserted in a frame has been advanced once, by that frame's
\* dt, when the frame ends, and its trail has 2 entries.
C11_SpawnedIsAdvancedInItsFrame ==
    \A p \in SpawnedThisFrame : p.updates = 1 /\ Len(p.trail) = 2

\* C11, amended: the advance step precedes the spawn. A projectile inserted
\* in a frame is not advanced in that frame: when the frame ends it is where
\* it was spawned, with the trail of its constructor. Its first advance is
\* that of the next frame, and while it is active it is advanced once in
\* every later frame.
C11_SpawnedIsAdvancedFromNextFrame ==
    /\ \A p \in SpawnedThisFrame :
          /\ p.updates = 0
          /\ p.pos = p.pos0
          /\ p.trail = InitialTrail(variant, p.pos0)
    /\ \A p \in Live : p.active => p.updates = frame - p.born

\* a projectile has been inserted by the last frame, and another one,
\* inserted earlier, has been advanced since
C11_Witness ==
    /\ SpawnedThisFrame # {}
    /\ variant \in MultiVariants
    /\ \E p \in Live : p.active /\ p.updates >= 1

-----------------------------------------------------------------------------
(* C12 *)

\* C12: in the single-projectile variants a frame puts a new projectile in
\* place only if the one it finds is inactive or absent, so an active
\* projectile is never replaced, and there is never more than the one
\* projectile: the list of the multi-projectile variants stays empty.
C12_SingleSpawnOnlyWhenInactive ==
    [][(variant \in SingleVariants) =>
          /\ (projectile'.id # projectile.id) =>
                (projectile = NoProjectile \/ ~projectile.active)
          /\ (projectile # NoProjectile /\ projectile.active) =>
                (projectile'.id = projectile.id /\ UNCHANGED spawn_frames)
          /\ projectiles' = <<>>
          /\ Cardinality(Live') <= 1]_vars

\* the second projectile of a single-projectile variant is in place
C12_Witness ==
    /\ variant \in SingleVariants
    /\ projectile.id = 2
    /\ projectile.born = frame

-----------------------------------------------------------------------------
(* C13 *)

\* the frame being taken runs `spawn_timer += dt`: every frame of a
\* multi-projectile loop, and the else branch of a single-projectile loop
TimerRuns == variant \in MultiVariants \/ ~SingleUpdates(projectile)

\* C13: in a frame that adds its dt to the timer, a projectile is spawned
\* exactly when the sum is strictly greater than the interval (a sum equal to
\* the interval spawns nothing). A spawning frame creates exactly one
\* projectile and leaves the timer at 0, whatever the excess was; any other
\* such frame leaves the sum in the timer and creates nothing. A frame that
\* does not add its dt spawns nothing and leaves the timer alone.
C13_SpawnIffTimerExceedsInterval ==
    [][LET sum     == spawn_timer + dts'[Len(dts')]
           created == { p.id : p \in LiveOf(projectiles', projectile') }
                         \ { p.id : p \in Live }
       IN  IF TimerRuns
           THEN /\ (sum > SpawnInterval(variant)) <=> (created # {})
                /\ (sum > SpawnInterval(variant)) =>
                      /\ created = {Len(spawn_frames) + 1}
                      /\ spawn_timer' = 0
                      /\ spawn_frames' = Append(spawn_frames, frame')
                /\ (sum <= SpawnInterval(variant)) =>
                      /\ spawn_timer' = sum
                      /\ UNCHANGED spawn_frames
           ELSE /\ created = {}
                /\ UNCHANGED <<spawn_timer, spawn_frames>>]_vars

\* after a spawn the timer has come back to the interval exactly, which
\* has spawned nothing
C13_Witness ==
    /\ spawn_timer = SpawnInterval(variant)
    /\ Len(spawn_frames) >= 1
    /\ spawn_frames[Len(spawn_frames)] < frame
    /\ variant \in {"fastcsv", "newytrenewall"}

-----------------------------------------------------------------------------
(* C14 *)

\* old is a prefix of new
IsPrefix(old, new) ==
    /\ Len(old) <= Len(new)
    /\ \A i \in 1..Len(old) : new[i] = old[i]

\* C14: the outer-entry, inner-entry and impact lists only grow at the end:
\* over every frame the old content of each list is a prefix of its new
\* content, whatever the frame does to the projectiles that produced the
\* markers (deactivation, removal from the list, replacement).
C14_MarkerListsAppendOnly ==
    [][/\ IsPrefix(outer_entry_points, outer_entry_points')
       /\ IsPrefix(inner_entry_points, inner_entry_points')
       /\ IsPrefix(impact_markers, impact_markers')]_vars

\* a list holds the markers of two projectiles, the first of which is no
\* longer held by the program
C14_Witness ==
    \E list \in {outer_entry_points, inner_entry_points, impact_markers} :
       /\ Len(list) >= 2
       /\ list[1].by # list[Len(list)].by
       /\ list[1].by \notin { p.id : p \in Live }

-----------------------------------------------------------------------------
(* C15 *)

\* the positions update() has computed for p, one per call
PostUpdatePositions(p) ==
    { p.trail[i] : i \in (Len(p.trail) - p.updates + 1)..Len(p.trail) }

\* C15, as claimed: in every variant a projectile whose y after integration
\* is <= 0, exactly 0 included, is inactive when that update() returns; in
\* the gravity variant so is one whose y exceeds 2 * inner_dome_radius.
C15_GroundedAtOrBelowZeroEverywhere ==
    projectile.updates >= 1 =>
       /\ (projectile.pos[2] <= 0) => ~projectile.active
       /\ (variant = "redalert" /\ projectile.pos[2] > 2 * InnerR)
             => ~projectile.active

\* C15, amended: in every variant but the gravity variant a projectile whose
\* y after integration is <= 0, exactly 0 included, is inactive when that
\* update() returns. In the gravity variant it is inactive when that y is
\* strictly below 0 or strictly above 2 * inner_dome_radius; y = 0 exactly
\* and y = 2 * inner_dome_radius exactly leave it active. Nothing else
\* deactivates a projectile.
C15_GroundedPerVariant ==
    projectile.active <=>
       \A pos \in PostUpdatePositions(projectile) :
          IF variant = "redalert"
          THEN 0 <= pos[2] /\ pos[2] <= 2 * InnerR
          ELSE pos[2] > 0

\* the gravity variant has brought a projectile to y = 0 exactly, and it is
\* still active
C15_Witness ==
    /\ variant = "redalert"
    /\ projectile.updates >= 1
    /\ projectile.pos[2] = 0
    /\ projectile.active

-----------------------------------------------------------------------------
(* C16 *)

\* C16: one update() appends its post-update position to the outer-entry
\* list exactly when the previous distance is > outer_dome_radius and the
\* current one <= outer_dome_radius, and to the inner-entry list exactly when
\* the previous distance is > inner_dome_radius and the current one
\* <= inner_dome_radius. Each test stands alone and appends at most one
\* marker, and when update() returns the previous distance is the current
\* one. (The two lists are separate, so the order of the two appends of one
\* update() leaves no trace in the state.)
C16_CrossingMarkersPerUpdate ==
    [][LET prev == projectile.prev_distance
           cur  == Dist(projectile'.pos)
           mark == <<Marker(projectile'.pos, projectile.id)>>
       IN  IF variant \in MarkerVariants
           THEN /\ outer_entry_points' = outer_entry_points \o
                      (IF prev > OuterR /\ cur <= OuterR THEN mark ELSE <<>>)
                /\ inner_entry_points' = inner_entry_points \o
                      (IF prev > InnerR /\ cur <= InnerR THEN mark ELSE <<>>)
                /\ projectile'.prev_distance = cur
           ELSE UNCHANGED <<outer_entry_points, inner_entry_points>>]_vars

\* one update() has appended to both lists, and a later one to neither
C16_Witness ==
    /\ Len(outer_entry_points) = 1
    /\ Len(inner_entry_points) = 1
    /\ outer_entry_points[1].pos = inner_entry_points[1].pos
    /\ projectile.pos # outer_entry_points[1].pos
    /\ projectile.prev_distance = Dist(projectile.pos)

-----------------------------------------------------------------------------
(* C17 *)

\* the places, in the list after a step, of the impact markers the step
\* has appended for projectile id
NewImpactsOf(id) ==
    { k \in (Len(impact_markers) + 1)..Len(impact_markers') :
         impact_markers'[k].by = id }

\* C17: in the impact-marker variant the update() of a projectile appends an
\* impact marker, made of the post-update position and a radius, exactly when
\* the projectile has produced none yet, its y is <= 0 and its horizontal
\* distance sqrt(x^2 + z^2) is <= inner_dome_radius; it appends at most one,
\* and nothing else appends impact markers. A projectile that comes to
\* y <= 0 at a horizontal distance > inner_dome_radius is deactivated by that
\* update(), and no impact marker is ever made for it.
C17_ImpactMarkerRule ==
    [][(variant = "fastcsv") =>
          /\ \A i \in DOMAIN projectiles :
                LET p == projectiles[i]
                IN  IF p.active
                    THEN \E q \in LiveOf(projectiles', projectile') :
                            /\ q.id = p.id
                            /\ (NewImpactsOf(p.id) # {}) <=>
                                  /\ ~p.marker_created
                                  /\ q.pos[2] <= 0
                                  /\ HorizontalDistance(q.pos) <= InnerR
                            /\ Cardinality(NewImpactsOf(p.id)) <= 1
                            /\ \A k \in NewImpactsOf(p.id) :
                                  /\ impact_markers'[k].pos = q.pos
                                  /\ impact_markers'[k].r \in RadiusDraws
                            /\ (q.pos[2] <= 0 /\ HorizontalDistance(q.pos) > InnerR)
                                  => ~q.active
                    ELSE NewImpactsOf(p.id) = {}
          /\ AppendedBy(impact_markers, impact_markers') \subseteq IdsOf(projectiles)
          /\ \A q \in LiveOf(projectiles', projectile') :
                (q.pos[2] <= 0 /\ HorizontalDistance(q.pos) > InnerR) =>
                   \A k \in DOMAIN impact_markers' : impact_markers'[k].by # q.id]_vars

\* one projectile has made its impact marker, and another has come to the
\* ground outside the inner dome and made none
C17_Witness ==
    /\ variant = "fastcsv"
    /\ impact_markers # <<>>
    /\ \E i \in DOMAIN projectiles :
          /\ ~projectiles[i].active
          /\ projectiles[i].updates >= 1
          /\ HorizontalDistance(projectiles[i].pos) > InnerR
          /\ \A k \in DOMAIN impact_markers :
                impact_markers[k].by # projectiles[i].id

-----------------------------------------------------------------------------
(* C18 *)

\* C18: every update() lengthens the trail by exactly one entry, which is
\* the position the projectile has when update() returns, and leaves every
\* earlier entry as it was: the entries are copies, which the in-place
\* changes of the position do not reach.
C18_TrailGrowsByCurrentPosition ==
    [][/\ Len(projectile'.trail) = Len(projectile.trail) + 1
       /\ projectile'.trail[Len(projectile'.trail)] = projectile'.pos
       /\ \A i \in DOMAIN projectile.trail :
             projectile'.trail[i] = projectile.trail[i]]_vars

\* the position has changed twice since the first entry of the trail was
\* stored, and the trail holds three different positions
C18_Witness ==
    /\ Len(projectile.trail) >= 3
    /\ projectile.trail[Len(projectile.trail)] = projectile.pos
    /\ projectile.trail[1] # projectile.pos
    /\ projectile.trail[2] # projectile.pos
    /\ projectile.trail[1] # projectile.trail[2]

-----------------------------------------------------------------------------
(* C19 *)

\* C19: the projectiles the program holds change in two ways only. A frame
\* takes in at most a projectile spawned in that very frame, new and not yet
\* updated, and it drops (or, in the single-projectile variants, replaces)
\* only a projectile whose active flag is false when the frame finds it: a
\* projectile found active is still held when the frame ends.
C19_OnlyInactiveLeave ==
    [][LET after == LiveOf(projectiles', projectile')
       IN  /\ \A p \in Live : p.active => \E q \in after : q.id = p.id
           /\ \A q \in after :
                 (\A p \in Live : p.id # q.id) =>
                    /\ q.id = Len(spawn_frames) + 1
                    /\ spawn_frames' = Append(spawn_frames, frame')
                    /\ q.born = frame'
                    /\ q.updates = 0
           /\ Cardinality({ q \in after : \A p \in Live : p.id # q.id }) <= 1]_vars

\* an inactive projectile has left, and a projectile spawned after it has
\* stayed through a frame that found it active
C19_Witness ==
    \E q \in Live :
       /\ q.active
       /\ q.updates >= 1
       /\ \E k \in 1..(q.id - 1) : \A p \in Live : p.id # k

-----------------------------------------------------------------------------
(* C20 *)

\* C20: the life of a projectile goes one way. No frame turns the active
\* flag of a projectile it holds from false to true, and a projectile the
\* program has let go is never held again: whatever a frame takes in has
\* never been held before.
C20_LifecycleIsOneWay ==
    [][LET after == LiveOf(projectiles', projectile')
       IN  /\ \A p \in Live : \A q \in after :
                 (q.id = p.id /\ ~p.active) => ~q.active
           /\ \A q \in after :
                 \/ \E p \in Live : p.id = q.id
                 \/ q.id > Len(spawn_frames)]_vars

\* a projectile has been inactive, has left, and its place is taken by a
\* later one that has been updated since
C20_Witness ==
    /\ variant \in SingleVariants
    /\ projectile.id >= 2
    /\ projectile.updates >= 1
    /\ projectile.active

-----------------------------------------------------------------------------
(* C21 *)

\* C21: update() changes the velocity through gravity only. In the variants
\* without gravity the velocity after an update() is the velocity before it.
\* In the gravity variant an update() takes 9.8 * dt off the y component and
\* leaves x and z alone, and the position step of that same update() uses
\* the velocity already decreased. In every variant the position moves by
\* the velocity update() leaves, times dt.
C21_VelocityChangesByGravityOnly ==
    [][LET dt == dts'[Len(dts')]
           v0 == projectile.vel
           v1 == projectile'.vel
       IN  /\ IF variant = "redalert"
              THEN v1 = Vec(v0[1], v0[2] - Gravity(dt), v0[3])
              ELSE v1 = v0
           /\ projectile'.pos = Add(projectile.pos, Displacement(v1, dt))]_vars

\* the gravity variant, one update() of one second from (322, 0, 0) with
\* velocity (-27, 40, 0): vy is 30.2 and y is 30.2, not 40
C21_Witness ==
    /\ variant = "redalert"
    /\ dts = <<1000>>
    /\ projectile.pos0 = Vec(3220, 0, 0)
    /\ projectile.vel = Vec(-2700, 3020, 0)
    /\ projectile.pos = Vec(2950, 302, 0)

-----------------------------------------------------------------------------
(* C22 *)

\* C22: whatever the draws, the position an aimed spawn_projectile()
\* computes is at a distance > 0 from the point it aims at (the ring and the
\* shell keep it outer_dome_radius + 20 or more from the origin, the ground
\* ring more than outer_dome_radius + 2 from (0, 150, 0)), so the direction
\* never has length zero and the velocity is a vector of the variant's speed
\* (in the gravity variant, of its horizontal speed).
C22_SpawnIsOffTheAimTarget ==
    projectile # NoProjectile =>
       /\ Norm(Sub(projectile.pos0, AimTarget(variant)))
             >= U(outer_dome_radius + SpawnMargin(variant))
       /\ Norm(Sub(projectile.pos0, AimTarget(variant))) > 0
       /\ LET vel  == projectile.vel
               aim  == IF variant = "redalert"
                       THEN Vec(vel[1], 0, vel[3]) ELSE vel
               full == IF variant = "redalert"
                       THEN Norm(Vec(projectile.pos0[1], 0, projectile.pos0[3]))
                       ELSE Norm(projectile.pos0)
           IN  \* |direction / norm * speed|, up to the rounding of the components
               /\ Norm(aim) * Norm(Sub(projectile.pos0, AimTarget(variant)))
                     <= (Speed(variant) + 2) * full
               /\ (Norm(aim) + 2) * Norm(Sub(projectile.pos0, AimTarget(variant)))
                     >= Speed(variant) * full

\* the shell has drawn its pole, where the sine of the polar angle cancels
\* x and z
C22_Witness ==
    /\ variant = "fastcsv"
    /\ projectile # NoProjectile
    /\ projectile.pos0 = Vec(0, -U(outer_dome_radius + SpawnMargin(variant)), 0)

-----------------------------------------------------------------------------
(* C23 *)

\* the positions a projectile is drawn at: where it is and where it has been
DrawnPositions(p) == { p.pos } \cup { p.trail[i] : i \in DOMAIN p.trail }

\* C23: get_zone_color gives every position exactly one of the zone colours,
\* by its distance d from the origin alone. With three zones: green (Outside)
\* exactly when d > outer_dome_radius, yellow (Transitional) exactly when
\* inner_dome_radius < d <= outer_dome_radius, red (Inside) exactly when
\* d <= inner_dome_radius. The two-zone variant is green exactly when
\* d > outer_dome_radius and yellow for everything else, so it has one colour
\* for Transitional and Inside and agrees with the others on Outside.
C23_ZoneByDistance ==
    variant \in ZoneVariants =>
       \A pos \in DrawnPositions(projectile) :
          LET d == Norm(pos)
              c == get_zone_color(variant, pos)
          IN  /\ (c = Green) <=> (d > OuterR)
              /\ (c = get_zone_color("fastcsv", pos)) <=> (variant # "newytrenewall" \/ d > InnerR)
              /\ IF variant = "newytrenewall"
                 THEN (c = Yellow) <=> (d <= OuterR)
                 ELSE /\ (c = Yellow) <=> (InnerR < d /\ d <= OuterR)
                      /\ (c = Red) <=> (d <= InnerR)

\* a projectile has been at distance outer_dome_radius exactly, which is
\* yellow, and is at distance inner_dome_radius exactly, which is red
C23_Witness ==
    /\ variant = "fastcsv"
    /\ \E i \in DOMAIN projectile.trail :
          /\ Norm(projectile.trail[i]) = OuterR
          /\ get_zone_color(variant, projectile.trail[i]) = Yellow
    /\ Norm(projectile.pos) = InnerR
    /\ get_zone_color(variant, projectile.pos) = Red

-----------------------------------------------------------------------------
(* C24 *)

\* C24 (as claimed): every projectile spawned becomes inactive in the end,
\* whatever the dt values, as long as they stay away from zero. Without
\* gravity update() leaves the velocity alone and deactivates at y <= 0
\* only, so a projectile that is still active after an update() reaches the
\* ground only if it is moving down: an active one that is not moving down
\* stays active for ever.
C24_ActiveIsHeadingForTheGround ==
    \A p \in Live :
       (variant # "redalert" /\ p.active /\ p.updates >= 1) => p.vel[2] < 0

-----------------------------------------------------------------------------
(* C25 *)

\* C25 (as claimed): in the impact-marker variant a projectile that has an
\* impact marker has an inner-entry marker too, appended by the same
\* update() or by an earlier one.
C25_ImpactAfterInnerEntry ==
    variant = "fastcsv" =>
       \A k \in DOMAIN impact_markers :
          \E j \in DOMAIN inner_entry_points :
             inner_entry_points[j].by = impact_markers[k].by

-----------------------------------------------------------------------------
(* C26 *)

\* C26: a projectile constructed at a distance > outer_dome_radius has no
\* inner-entry marker before its first outer-entry marker: whenever it has
\* an inner-entry marker it has an outer-entry marker, appended by the same
\* update() or by an earlier one, so at a position at least as far from the
\* center. (The two lists are separate, so the order of the two appends of
\* one update() leaves no trace in the state.)
C26_NoInnerEntryBeforeOuterEntry ==
    (variant \in MarkerVariants /\ Dist(projectile.pos0) > OuterR) =>
       \A j \in DOMAIN inner_entry_points :
          /\ outer_entry_points # <<>>
          /\ \E i \in DOMAIN projectile.trail : \E k \in DOMAIN projectile.trail :
                /\ i <= k
                /\ projectile.trail[i] = outer_entry_points[1].pos
                /\ projectile.trail[k] = inner_entry_points[j].pos

\* a projectile from outside has entered the outer dome in one update() and
\* the inner dome in a later one
C26_Witness ==
    /\ variant \in MarkerVariants
    /\ Dist(projectile.pos0) > OuterR
    /\ outer_entry_points # <<>>
    /\ inner_entry_points # <<>>
    /\ outer_entry_points[1].pos # inner_entry_points[1].pos

-----------------------------------------------------------------------------
(* C27 *)

\* the number of markers of a list that projectile id has appended
MarkersOf(list, id) == Cardinality({ i \in DOMAIN list : list[i].by = id })

\* speed * dt <= inner_dome_radius in every frame so far
StepsWithinInnerRadius ==
    \A i \in DOMAIN dts :
       Speed(variant) * dts[i] <= inner_dome_radius * VelScale * MsPerSec

\* C27: in the ring-launch variant with entry markers, as long as no frame
\* moves a projectile by more than inner_dome_radius, a projectile never has
\* more than one outer-entry marker or more than one inner-entry marker, and
\* once it is inactive (in the list still, or removed from it) it has exactly
\* one of each.
C27_RingProjectileEntersEachDomeOnce ==
    (variant = "newytrenewall" /\ StepsWithinInnerRadius) =>
       \A id \in 1..Len(spawn_frames) :
          /\ MarkersOf(outer_entry_points, id) <= 1
          /\ MarkersOf(inner_entry_points, id) <= 1
          /\ (\A i \in DOMAIN projectiles :
                 projectiles[i].id = id => ~projectiles[i].active) =>
                /\ MarkersOf(outer_entry_points, id) = 1
                /\ MarkersOf(inner_entry_points, id) = 1

\* a ring projectile has been deactivated and removed, a second one has
\* been deactivated, a third is on its way
C27_Witness ==
    /\ variant = "newytrenewall"
    /\ StepsWithinInnerRadius
    /\ Len(spawn_frames) >= 3
    /\ 1 \notin IdsOf(projectiles)
    /\ \E i \in DOMAIN projectiles : ~projectiles[i].active
    /\ \E i \in DOMAIN projectiles : projectiles[i].active

-----------------------------------------------------------------------------
(* C28 *)

\* the variants that spawn on the spherical shell
ShellVariants == {"newqmanytrajectory", "fastcsv"}

\* speed * dt < spawn_radius for the dt of the first update() of p
FirstStepShortOfCenter(p) ==
    Speed(variant) * dts[p.born + 1]
       < (outer_dome_radius + SpawnMargin(variant)) * VelScale * MsPerSec

\* C28: in the shell variants a projectile spawned with y <= 0 is inactive
\* after its first update() whenever that update() moves it by less than the
\* spawn radius; the loop never updates it again, so it is dropped with a
\* trail of 2 entries.
C28_UndergroundSpawnDiesAtFirstUpdate ==
    variant \in ShellVariants =>
       \A i \in DOMAIN projectiles :
          LET p == projectiles[i]
          IN  (p.pos0[2] <= 0 /\ p.updates >= 1 /\ FirstStepShortOfCenter(p)) =>
                 /\ ~p.active
                 /\ p.updates = 1
                 /\ Len(p.trail) = 2
                 /\ p.trail[1] = p.pos0

\* a projectile spawned below the ground has made a first step of 300, just
\* short of the spawn radius, and is inactive with its trail of 2
C28_Witness ==
    /\ variant = "newqmanytrajectory"
    /\ \E i \in DOMAIN projectiles :
          /\ projectiles[i].pos0[2] < 0
          /\ projectiles[i].updates = 1
          /\ dts[projectiles[i].born + 1] = 3000
          /\ ~projectiles[i].active
          /\ Len(projectiles[i].trail) = 2

-----------------------------------------------------------------------------
(* C29 *)

\* dts[a] + ... + dts[b]
RECURSIVE SumDts(_, _, _)
SumDts(seq, a, b) == IF a > b THEN 0 ELSE seq[b] + SumDts(seq, a, b - 1)

\* the least dt a frame of the single-projectile loops is given
MinFrameDt == CHOOSE d \in SingleFrameDts : \A e \in SingleFrameDts : d <= e

\* C29: in the single-projectile variants the timer moves only in frames
\* that find the projectile inactive. While the projectile is active the
\* timer is 0 and no frame replaces it. Once frame n has deactivated it, the
\* timer after each later frame is the sum of the dt of the frames n+1 to
\* that frame (the dt of frame n is not in it) as long as that sum has not
\* exceeded the interval; the first frame m whose sum strictly exceeds the
\* interval spawns the replacement and zeroes the timer. Every dt being at
\* least MinFrameDt, that frame comes at most interval / MinFrameDt + 1
\* frames after n.
C29_SingleTimerRunsWhileInactive ==
    [][(variant \in SingleVariants) =>
          LET p == projectile
              n == p.born + p.updates
              s == SumDts(dts', n + 1, frame')
              replaced == projectile'.id # p.id
          IN  IF p.active
              THEN /\ spawn_timer = 0
                   /\ spawn_timer' = 0
                   /\ ~replaced
              ELSE /\ spawn_timer = SumDts(dts, n + 1, frame)
                   /\ spawn_timer <= SpawnInterval(variant)
                   /\ (frame - n) * MinFrameDt <= SpawnInterval(variant)
                   /\ replaced <=> (s > SpawnInterval(variant))
                   /\ replaced =>
                         /\ spawn_timer' = 0
                         /\ projectile'.born = frame'
                         /\ projectile'.active
                   /\ ~replaced => spawn_timer' = s]_vars

\* the replacement has come in the second frame after the deactivation, the
\* first one having left the timer short of the interval
C29_Witness ==
    /\ variant \in SingleVariants
    /\ projectile.id = 2
    /\ projectile.born = frame
    /\ frame >= 2
    /\ dts[frame] + dts[frame - 1] > SpawnInterval(variant)
    /\ dts[frame] <= SpawnInterval(variant)

-----------------------------------------------------------------------------
(* C30 *)

\* C30: when a frame ends the spawn timer is at least 0 and at most the
\* interval of the variant, in the multi-projectile loops and in the
\* single-projectile loops alike.
C30_TimerWithinInterval ==
    /\ 0 <= spawn_timer
    /\ spawn_timer <= SpawnInterval(variant)

\* a single-projectile loop has let the timer run up to the interval
\* exactly, over more than one frame, without spawning
C30_Witness ==
    /\ variant \in SingleVariants
    /\ ~projectile.active
    /\ spawn_timer = SpawnInterval(variant)
    /\ dts[frame] < spawn_timer

====
